---- MODULE Spec2Model ----
(***************************************************************************)
(* Model of optuna_integration/comet.py: CometCallback.                    *)
(*                                                                         *)
(* A handler (constructor, __call__, the track_in_comet wrapper) is        *)
(* translated into the list of statements it executes, in source order,    *)
(* and the list is run by an interpreter (Apply / RunSteps) over the       *)
(* program state: the study's user attributes, the remote Comet records,   *)
(* the comet_ml.Experiment objects of the process, the process-wide        *)
(* comet_ml.active_experiment attribute and the callback instances.        *)
(***************************************************************************)
EXTENDS Integers, Sequences, FiniteSets, TLC

\* ---------------------------------------------------------------- bounds
\* callback instances constructed on the study
MaxCallbacks == 2
\* comet_ml.Experiment objects created in one behaviour
MaxExperiments == 3
\* objectives of the study / values of a trial
MaxObjectives == 2
\* length of the metric_names argument
MaxMetricNames == 1
\* worker processes constructing concurrently
NumWorkers == 2

\* ------------------------------------------------------- values and inputs
\* Python's None; experiment keys and object ids are positive, so None is falsy
None == 0

study_name == "study"
StorageClassName == "InMemoryStorage"
DefaultWorkspace == "workspace"
AllMetricNames == <<"loss", "acc", "f1">>

\* trial.number
TrialNumbers == {0, 1}
Workers == 1..NumWorkers

\* metric_names argument: None or a list of names
MetricNameArgs == {SubSeq(AllMetricNames, 1, k) : k \in 0..MaxMetricNames}

\* study.directions: one StudyDirection per objective
StudyDirections ==
    {<<"MINIMIZE">>} \cup {SubSeq(<<"MAXIMIZE", "MINIMIZE", "MAXIMIZE">>, 1, k) : k \in 2..MaxObjectives}

\* trial.values: None (modelled as the empty list, equally falsy) or a list
TrialValues == {[i \in 1..k |-> i * 10] : k \in 0..MaxObjectives}

\* trial.params
TrialParams == {("x" :> 1)}

\* return values of the user's objective function
ObjectiveResults == {7, 8}

VARIABLES
    user_attrs,         \* study.user_attrs (shared study state): attribute name -> value
    directions,         \* study.directions
    best_trials,        \* study.best_trials, as the list of their numbers
    records,            \* remote Comet records, indexed by experiment key
    experiments,        \* comet_ml.Experiment objects of the process: [key, ended]
    active_experiment,  \* comet_ml.active_experiment: None (no such attribute) or an object id
    callbacks,          \* the CometCallback instances constructed so far
    calls,              \* the statements executed by the last handler, in order
    last,               \* the last handler that ran, its arguments and its result
    wpc,                \* per worker: position in its constructor
    wself,              \* per worker: the callback under construction
    wsteps              \* per worker: statements of the constructor still to run

vars == <<user_attrs, directions, best_trials, records, experiments, active_experiment,
          callbacks, calls, last, wpc, wself, wsteps>>

\* ------------------------------------------------------------ dictionaries
EmptyDict == <<>>

\* dict.get(key): the value, or None when the key is absent
Get(d, k) == IF k \in DOMAIN d THEN d[k] ELSE None

\* d[k] = v
Put(d, k, v) == (k :> v) @@ d

\* ------------------------------------------------------------ remote records
\* A record keeps its tags and its "other" annotations.  The parameters, metrics
\* and optimization results sent to it are never read back by the program; what
\* was sent is kept in the call log.
NewRecord(kind, workspace, project_name) ==
    [kind |-> kind, workspace |-> workspace, project_name |-> project_name,
     tags |-> {}, others |-> EmptyDict]

\* ------------------------------------------------------------- statements
\* A statement: [op, on, name, value].  `on` names the object it acts on:
\* "study_experiment" (self.study_experiment), "experiment" (the local
\* experiment / trial_experiment), "active_experiment", "study", "self", "trial".
Stmt(op, on, name, value) == [op |-> op, on |-> on, name |-> name, value |-> value]

\* The machine state a handler runs on: the program state, the handler's `self`,
\* its local `experiment`, the `experiment` attribute of the trial object it was
\* passed (not set yet), the attribute the user's objective found on the trial,
\* the handler's return value and the statements it has run.
Machine(self) ==
    [user_attrs |-> user_attrs, records |-> records, experiments |-> experiments,
     active_experiment |-> active_experiment, self |-> self, experiment |-> None,
     trial_experiment |-> None, func_saw |-> None, ret |-> None, calls |-> <<>>]

\* A callback instance before __init__ has run
NewSelf(workspace, project_name, metric_names) ==
    [workspace |-> workspace, project_name |-> project_name,
     metric_names |-> metric_names, study_experiment |-> None,
     trial_experiments |-> EmptyDict]

\* ------------------------------------------------------------ interpreter
\* The experiment key a statement's target stands for
TargetKey(M, on) ==
    CASE on = "study_experiment" -> M.self.study_experiment
      [] on = "experiment" -> M.experiments[M.experiment].key
      [] on = "active_experiment" -> M.experiments[M.active_experiment].key
      [] OTHER -> None

\* The comet_ml.Experiment object a statement's target stands for (None for others)
TargetObject(M, on) ==
    CASE on = "experiment" -> M.experiment
      [] on = "active_experiment" -> M.active_experiment
      [] OTHER -> None

\* The comet_ml.Experiment objects that have not ended
OpenExperiments(exps) == {e \in 1..Len(exps) : ~exps[e].ended}

\* The entry the call log keeps of a statement: the statement, the key and object
\* it acted on, whether that object had ended when the statement ran, and the
\* Experiment objects that were open when it ran
Logged(M, s) ==
    LET obj == TargetObject(M, s.on) IN
    [op |-> s.op, on |-> s.on, name |-> s.name, value |-> s.value,
     key |-> TargetKey(M, s.on), obj |-> obj,
     ended |-> IF obj = None THEN FALSE ELSE M.experiments[obj].ended,
     open |-> OpenExperiments(M.experiments)]

\* Effect of one statement on the machine state (without the call log)
Effect(M, s) ==
    LET key == TargetKey(M, s.on)
        obj == TargetObject(M, s.on)
        newKey == Len(M.records) + 1
        newObj == Len(M.experiments) + 1
    IN
    CASE s.op = "get_default_workspace" ->
            [M EXCEPT !.self.workspace = DefaultWorkspace]
      [] s.op = "APIExperiment" /\ s.value # None ->
            [M EXCEPT !.self.study_experiment = s.value]
      [] s.op = "APIExperiment" /\ s.value = None ->
            [M EXCEPT !.records = Append(@, NewRecord("APIExperiment", M.self.workspace,
                                                      M.self.project_name)),
                      !.self.study_experiment = newKey]
      [] s.op = "add_tag" ->
            [M EXCEPT !.records[key].tags = @ \cup {s.value}]
      [] s.op = "log_other" ->
            [M EXCEPT !.records[key].others = Put(@, s.name, s.value)]
      [] s.op = "set_user_attr" ->
            [M EXCEPT !.user_attrs = Put(@, s.name, M.self.study_experiment)]
      [] s.op = "load_trial_experiments" ->
            [M EXCEPT !.self.trial_experiments =
                IF "trial_experiments" \in DOMAIN M.user_attrs
                THEN M.user_attrs["trial_experiments"] ELSE EmptyDict]
      [] s.op = "end" ->
            [M EXCEPT !.experiments[obj].ended = TRUE]
      [] s.op = "return_active" ->
            [M EXCEPT !.experiment = M.active_experiment]
      [] s.op = "ExistingExperiment" ->
            [M EXCEPT !.experiments = Append(@, [key |-> s.value, ended |-> FALSE]),
                      !.experiment = newObj]
      [] s.op = "Experiment" ->
            [M EXCEPT !.records = Append(@, NewRecord("Experiment", M.self.workspace,
                                                      M.self.project_name)),
                      !.experiments = Append(@, [key |-> newKey, ended |-> FALSE]),
                      !.experiment = newObj]
      [] s.op = "store_key" ->
            [M EXCEPT !.self.trial_experiments = Put(@, s.name, key)]
      [] s.op = "setattr_active" ->
            [M EXCEPT !.active_experiment = M.experiment]
      [] s.op = "setattr_trial" ->
            [M EXCEPT !.trial_experiment = M.experiment]
      [] s.op = "func" ->
            [M EXCEPT !.func_saw = M.trial_experiment, !.ret = s.value]
      [] OTHER -> M

\* Run one statement: its effect, and its entry in the call log
Apply(M, s) == [Effect(M, s) EXCEPT !.calls = Append(M.calls, Logged(M, s))]

RECURSIVE RunSteps(_, _)
RunSteps(M, stmts) ==
    IF stmts = <<>> THEN M ELSE RunSteps(Apply(M, Head(stmts)), Tail(stmts))

\* ------------------------------------------------------- CometCallback.__init__
\* `if experiment_key:`
Truthy(v) == v # None

\* mutation: the stored key is ignored and a record is created every time
StudyExperimentStmtsAlwaysNew(experiment_key) ==
    << Stmt("APIExperiment", "study_experiment", "new", None),
       Stmt("add_tag", "study_experiment", "", "optuna_study"),
       Stmt("log_other", "study_experiment", "optuna_study_name", study_name),
       Stmt("log_other", "study_experiment", "optuna_storage", StorageClassName),
       Stmt("set_user_attr", "study", "comet_study_experiment_key", None) >>

\* mutation: a resumed record is tagged again
StudyExperimentStmtsRetag(experiment_key) ==
    IF Truthy(experiment_key)
    THEN << Stmt("APIExperiment", "study_experiment", "previous_experiment", experiment_key),
            Stmt("add_tag", "study_experiment", "", "optuna_study") >>
    ELSE << Stmt("APIExperiment", "study_experiment", "new", None),
            Stmt("add_tag", "study_experiment", "", "optuna_study"),
            Stmt("log_other", "study_experiment", "optuna_study_name", study_name),
            Stmt("log_other", "study_experiment", "optuna_storage", StorageClassName),
            Stmt("set_user_attr", "study", "comet_study_experiment_key", None) >>

\* mutation: the key of a new record is stored in the study before the record
\* is tagged and annotated
StudyExperimentStmtsPublishFirst(experiment_key) ==
    IF Truthy(experiment_key)
    THEN << Stmt("APIExperiment", "study_experiment", "previous_experiment", experiment_key) >>
    ELSE << Stmt("APIExperiment", "study_experiment", "new", None),
            Stmt("set_user_attr", "study", "comet_study_experiment_key", None),
            Stmt("add_tag", "study_experiment", "", "optuna_study"),
            Stmt("log_other", "study_experiment", "optuna_study_name", study_name),
            Stmt("log_other", "study_experiment", "optuna_storage", StorageClassName) >>

\* _init_optuna_study_experiment, given the key read from study.user_attrs
StudyExperimentStmts(experiment_key) ==
    IF Truthy(experiment_key)
    THEN << Stmt("APIExperiment", "study_experiment", "previous_experiment", experiment_key) >>
    ELSE << Stmt("APIExperiment", "study_experiment", "new", None),
            Stmt("add_tag", "study_experiment", "", "optuna_study"),
            Stmt("log_other", "study_experiment", "optuna_study_name", study_name),
            Stmt("log_other", "study_experiment", "optuna_storage", StorageClassName),
            Stmt("set_user_attr", "study", "comet_study_experiment_key", None) >>

\* "minimize" if direction == StudyDirection.MINIMIZE else "maximize"
DirectionStr(direction) == IF direction = "MINIMIZE" THEN "minimize" ELSE "maximize"

\* metric_names[i] if i < len(metric_names) else i, formatted into a string
\* (i is the 0-based index of the objective)
MetricName(metric_names, i) ==
    IF i < Len(metric_names) THEN metric_names[i + 1] ELSE ToString(i)

\* mutation: the configured metric names are ignored, every objective is keyed
\* by its index
DirectionStmtsIndexOnly(dirs, metric_names) ==
    [j \in 1..Len(dirs) |->
        Stmt("log_other", "study_experiment",
             "direction_of_objective_" \o ToString(j - 1),
             DirectionStr(dirs[j]))]

\* the loop logging the directions of the objectives
DirectionStmts(dirs, metric_names) ==
    [j \in 1..Len(dirs) |->
        Stmt("log_other", "study_experiment",
             "direction_of_objective_" \o MetricName(metric_names, j - 1),
             DirectionStr(dirs[j]))]

\* workspace argument: None (modelled as "") or a name; project_name argument
WorkspaceArgs == {"", "workspace"}
ProjectNameArg == "general"

\* `if self._workspace is None:` resolve the default workspace
WorkspaceStmts(workspace) ==
    IF workspace = "" THEN << Stmt("get_default_workspace", "self", "", None) >> ELSE << >>

\* the rest of __init__, given the key _init_optuna_study_experiment reads
\* from study.user_attrs
AfterWorkspaceStmts(metric_names, experiment_key) ==
    StudyExperimentStmts(experiment_key)
    \o DirectionStmts(directions, metric_names)
    \o << Stmt("load_trial_experiments", "self", "", None) >>

\* __init__
InitStmts(workspace, metric_names) ==
    WorkspaceStmts(workspace)
    \o AfterWorkspaceStmts(metric_names, Get(user_attrs, "comet_study_experiment_key"))

\* --------------------------------------- _init_optuna_trial_experiment
\* hasattr(comet_ml, "active_experiment")
HasActive == active_experiment # None

\* mutation: the active experiment is not ended before another one is made
TrialExperimentStmtsNoEnd(self, number) ==
    LET experiment_key == Get(self.trial_experiments, number) IN
    IF HasActive /\ experiment_key = experiments[active_experiment].key
    THEN << Stmt("return_active", "active_experiment", "", None) >>
    ELSE (IF Truthy(experiment_key)
          THEN << Stmt("ExistingExperiment", "self", "previous_experiment", experiment_key) >>
          ELSE << Stmt("Experiment", "self", "new", None),
                  Stmt("add_tag", "experiment", "", "optuna_trial"),
                  Stmt("log_other", "experiment", "optuna_study_name", study_name),
                  Stmt("store_key", "experiment", number, None) >>)
         \o << Stmt("setattr_active", "experiment", "", None) >>

\* mutation: the key of a new experiment is not stored in the mapping
TrialExperimentStmtsNoStore(self, number) ==
    LET experiment_key == Get(self.trial_experiments, number) IN
    IF HasActive /\ experiment_key = experiments[active_experiment].key
    THEN << Stmt("return_active", "active_experiment", "", None) >>
    ELSE (IF HasActive /\ experiments[active_experiment].ended = FALSE
          THEN << Stmt("end", "active_experiment", "", None) >> ELSE << >>)
         \o (IF Truthy(experiment_key)
             THEN << Stmt("ExistingExperiment", "self", "previous_experiment", experiment_key) >>
             ELSE << Stmt("Experiment", "self", "new", None),
                     Stmt("add_tag", "experiment", "", "optuna_trial"),
                     Stmt("log_other", "experiment", "optuna_study_name", study_name) >>)
         \o << Stmt("setattr_active", "experiment", "", None) >>

\* mutation: a key found in the mapping is not resumed, a record is created
TrialExperimentStmtsAlwaysCreate(self, number) ==
    LET experiment_key == Get(self.trial_experiments, number) IN
    IF HasActive /\ experiment_key = experiments[active_experiment].key
    THEN << Stmt("return_active", "active_experiment", "", None) >>
    ELSE (IF HasActive /\ experiments[active_experiment].ended = FALSE
          THEN << Stmt("end", "active_experiment", "", None) >> ELSE << >>)
         \o << Stmt("Experiment", "self", "new", None),
               Stmt("add_tag", "experiment", "", "optuna_trial"),
               Stmt("log_other", "experiment", "optuna_study_name", study_name),
               Stmt("store_key", "experiment", number, None) >>
         \o << Stmt("setattr_active", "experiment", "", None) >>

\* mutation: only a newly created experiment is made the active experiment
TrialExperimentStmtsSetOnCreate(self, number) ==
    LET experiment_key == Get(self.trial_experiments, number) IN
    IF HasActive /\ experiment_key = experiments[active_experiment].key
    THEN << Stmt("return_active", "active_experiment", "", None) >>
    ELSE (IF HasActive /\ experiments[active_experiment].ended = FALSE
          THEN << Stmt("end", "active_experiment", "", None) >> ELSE << >>)
         \o (IF Truthy(experiment_key)
             THEN << Stmt("ExistingExperiment", "self", "previous_experiment", experiment_key) >>
             ELSE << Stmt("Experiment", "self", "new", None),
                     Stmt("add_tag", "experiment", "", "optuna_trial"),
                     Stmt("log_other", "experiment", "optuna_study_name", study_name),
                     Stmt("store_key", "experiment", number, None),
                     Stmt("setattr_active", "experiment", "", None) >>)

TrialExperimentStmts(self, number) ==
    LET experiment_key == Get(self.trial_experiments, number) IN
    IF HasActive /\ experiment_key = experiments[active_experiment].key
    THEN << Stmt("return_active", "active_experiment", "", None) >>
    ELSE (IF HasActive /\ experiments[active_experiment].ended = FALSE
          THEN << Stmt("end", "active_experiment", "", None) >> ELSE << >>)
         \o (IF Truthy(experiment_key)
             THEN << Stmt("ExistingExperiment", "self", "previous_experiment", experiment_key) >>
             ELSE << Stmt("Experiment", "self", "new", None),
                     Stmt("add_tag", "experiment", "", "optuna_trial"),
                     Stmt("log_other", "experiment", "optuna_study_name", study_name),
                     Stmt("store_key", "experiment", number, None) >>)
         \o << Stmt("setattr_active", "experiment", "", None) >>

\* ------------------------------------------------ CometCallback.__call__
\* trial.value: the single value of the trial, None when it has none
TrialValue(values) == IF Len(values) = 0 THEN None ELSE values[1]

\* study.direction: the direction of the study's (first) objective
StudyDirection == directions[1]

RECURSIVE Join(_)
Join(numbers) ==
    IF Len(numbers) = 0 THEN ""
    ELSE IF Len(numbers) = 1 THEN ToString(numbers[1])
    ELSE ToString(numbers[1]) \o ", " \o Join(Tail(numbers))

\* json.dumps of a list of trial numbers
JsonDumps(numbers) == "[" \o Join(numbers) \o "]"

\* mutation: a single value already counts as multi-objective
IsMultiObjectiveOffByOne(values) == Len(values) > 0

\* `if trial.values and len(trial.values) > 1:`
IsMultiObjective(values) == Len(values) > 1

\* the logging of the objective value(s)
ObjectiveStmts(self, params, values) ==
    IF IsMultiObjective(values)
    THEN [j \in 1..Len(values) |->
            Stmt("log_metric", "experiment", MetricName(self.metric_names, j - 1), values[j])]
    ELSE << Stmt("log_optimization", "experiment", "",
                 [optimization_id |-> study_name,
                  metric_name |-> IF Len(self.metric_names) > 0
                                  THEN self.metric_names[1] ELSE "objective_value",
                  metric_value |-> TrialValue(values),
                  parameters |-> params,
                  objective |-> StudyDirection]) >>

\* mutation: the best trials are appended to those reported before
BestTrialsStmtsAppend(best) ==
    << Stmt("log_other", "study_experiment", "best_trials", JsonDumps(best_trials \o best)) >>

\* the overwrite of the "best_trials" annotation of the study's experiment
BestTrialsStmts(best) ==
    << Stmt("log_other", "study_experiment", "best_trials", JsonDumps(best)) >>

\* mutation: the trial's experiment is ended before the best trials are logged
CallStmtsEndEarly(self, number, params, values, best) ==
    TrialExperimentStmts(self, number)
    \o << Stmt("log_parameters", "experiment", "", params),
          Stmt("log_other", "experiment", "trial_number", number),
          Stmt("add_tag", "experiment", "", "trial_number_" \o ToString(number)) >>
    \o ObjectiveStmts(self, params, values)
    \o << Stmt("end", "experiment", "", None) >>
    \o BestTrialsStmts(best)

CallStmts(self, number, params, values, best) ==
    TrialExperimentStmts(self, number)
    \o << Stmt("log_parameters", "experiment", "", params),
          Stmt("log_other", "experiment", "trial_number", number),
          Stmt("add_tag", "experiment", "", "trial_number_" \o ToString(number)) >>
    \o ObjectiveStmts(self, params, values)
    \o BestTrialsStmts(best)
    \o << Stmt("end", "experiment", "", None) >>

\* ------------------------------------------- track_in_comet: the wrapper
\* mutation: the objective runs before the experiment is set on the trial
WrapperStmtsFuncFirst(self, number, result) ==
    TrialExperimentStmts(self, number)
    \o << Stmt("func", "trial", "", result),
          Stmt("setattr_trial", "trial", "experiment", None) >>

WrapperStmts(self, number, result) ==
    TrialExperimentStmts(self, number)
    \o << Stmt("setattr_trial", "trial", "experiment", None),
          Stmt("func", "trial", "", result) >>

\* ---------------------------------------------------------------- state
\* study.best_trials, as the list of the trials' numbers
BestTrialsLists == {<< 0 >>, << 0, 1 >>}

\* the experiment of the callback's study carries a "best_trials" annotation
HasBestTrials(self) == "best_trials" \in DOMAIN records[self.study_experiment].others

\* what is remembered of the last handler: its arguments, the experiment it
\* resolved, the `experiment` attribute it left on its trial object, what the
\* user's objective saw and returned, the experiment exposed by the wrapper when
\* that ran right before it for the same trial on the same callback, whether it
\* replaced a different "best_trials" annotation, and the stored study key and the
\* number of records before it ran
LastHandler(op, c, number, params, values, M, result, exposed, replaced) ==
    [op |-> op, c |-> c, number |-> number, params |-> params, values |-> values,
     experiment |-> M.experiment, trial_experiment |-> M.trial_experiment,
     func_saw |-> M.func_saw, result |-> result,
     ret |-> M.ret, exposed |-> exposed, replaced |-> replaced,
     key_before |-> Get(user_attrs, "comet_study_experiment_key"),
     records_before |-> Len(records)]

\* a fresh study with these directions, and a process that has made no callback
InitStudy(dirs) ==
    /\ user_attrs = EmptyDict
    /\ directions = dirs
    /\ best_trials = << >>
    /\ records = << >>
    /\ experiments = << >>
    /\ active_experiment = None
    /\ callbacks = << >>
    /\ calls = << >>
    /\ last = LastHandler("none", 0, 0, EmptyDict, << >>, Machine(None), None, None, FALSE)
    /\ wpc = [w \in Workers |-> "idle"]
    /\ wself = [w \in Workers |-> NewSelf("", ProjectNameArg, << >>)]
    /\ wsteps = [w \in Workers |-> << >>]

\* the machine state after a handler, written back to the variables
Commit(M) ==
    /\ Len(M.experiments) <= MaxExperiments
    /\ user_attrs' = M.user_attrs
    /\ records' = M.records
    /\ experiments' = M.experiments
    /\ active_experiment' = M.active_experiment
    /\ calls' = M.calls

\* CometCallback(study, workspace, project_name, metric_names)
Construct(workspace, metric_names) ==
    \E M \in {RunSteps(Machine(NewSelf(workspace, ProjectNameArg, metric_names)),
                      InitStmts(workspace, metric_names))} :
       /\ Len(callbacks) < MaxCallbacks
       /\ Commit(M)
       /\ callbacks' = Append(callbacks, M.self)
       /\ last' = LastHandler("init", Len(callbacks) + 1, 0, EmptyDict, << >>, M, None, None, FALSE)
       /\ UNCHANGED <<directions, best_trials, wpc, wself, wsteps>>

\* callback(study, trial), for a trial with this number, parameters and values,
\* at a moment when the study reports these best trials
Call(c, number, params, values, best) ==
    \E M \in {RunSteps(Machine(callbacks[c]),
                      CallStmts(callbacks[c], number, params, values, best))} :
       /\ Commit(M)
       /\ callbacks' = [callbacks EXCEPT ![c] = M.self]
       /\ best_trials' = best
       /\ last' = LastHandler("call", c, number, params, values, M, None,
                               IF last.op = "wrapper" /\ last.c = c /\ last.number = number
                               THEN last.trial_experiment ELSE None,
                               HasBestTrials(callbacks[c]) /\ best_trials # best)
       /\ UNCHANGED <<directions, wpc, wself, wsteps>>

\* the decorated objective called with a trial; the user's objective returns `result`
Wrapper(c, number, result) ==
    \E M \in {RunSteps(Machine(callbacks[c]),
                      WrapperStmts(callbacks[c], number, result))} :
       /\ Commit(M)
       /\ callbacks' = [callbacks EXCEPT ![c] = M.self]
       /\ last' = LastHandler("wrapper", c, number, EmptyDict, << >>, M, result, None, FALSE)
       /\ UNCHANGED <<directions, best_trials, wpc, wself, wsteps>>

\* Callbacks, decorated objectives and invocations in any order, for any callback
\* instance and any trial number, on a single-objective study whose trials
\* complete with one value.
Init == InitStudy(<< "MINIMIZE" >>)

Next ==
    \/ \E workspace \in WorkspaceArgs : Construct(workspace, << >>)
    \/ \E c \in 1..Len(callbacks), number \in TrialNumbers, params \in TrialParams :
            Call(c, number, params, << 10 >>, << 0 >>)
    \/ \E c \in 1..Len(callbacks), number \in TrialNumbers, result \in ObjectiveResults :
            Wrapper(c, number, result)

Spec == Init /\ [][Next]_vars

\* One callback, constructed with any metric names on a study with any directions,
\* then decorated objectives and invocations for trials with any values while the
\* study reports any best trials.
InitLogging == \E dirs \in StudyDirections : InitStudy(dirs)

NextLogging ==
    \/ \E workspace \in WorkspaceArgs, metric_names \in MetricNameArgs :
            Len(callbacks) = 0 /\ Construct(workspace, metric_names)
    \/ \E number \in TrialNumbers, params \in TrialParams,
          values \in TrialValues, best \in BestTrialsLists :
            Len(callbacks) > 0 /\ Call(1, number, params, values, best)
    \/ \E number \in TrialNumbers, result \in ObjectiveResults :
            Len(callbacks) > 0 /\ Wrapper(1, number, result)

SpecLogging == InitLogging /\ [][NextLogging]_vars

\* A script run again and again on the same study: each run constructs a callback
\* with any metric names (the first creates the study's experiment, the later ones
\* resume it) and invokes it for trials whose values match the study's objectives.
ValuesOfStudy == [i \in 1..Len(directions) |-> i * 10]

NextResume ==
    \/ \E workspace \in WorkspaceArgs, metric_names \in MetricNameArgs :
            Construct(workspace, metric_names)
    \/ \E number \in TrialNumbers, params \in TrialParams, best \in BestTrialsLists :
            Len(callbacks) > 0 /\ Call(Len(callbacks), number, params, ValuesOfStudy, best)

SpecResume == InitLogging /\ [][NextResume]_vars

\* ------------------------------------------------ failing remote calls
\* No handler catches an exception, so a call that raises ends its handler at
\* that statement: the statements before it have run, the ones after it do not.

\* the statements that call the Comet service or the study's storage and may raise
RaisingOps == {"get_default_workspace", "APIExperiment", "add_tag", "log_other",
               "set_user_attr", "end", "ExistingExperiment", "Experiment",
               "log_parameters", "log_metric", "log_optimization"}

\* positions of a statement list at which a call may raise
RaisingPositions(stmts) == {k \in 1..Len(stmts) : stmts[k].op \in RaisingOps}

\* The statement raises: it has no effect, the call log keeps it as a "raise"
\* entry naming the call and carrying the statement
Raise(M, s) == [M EXCEPT !.calls = Append(@, Logged(M, Stmt("raise", s.on, s.op, s)))]

\* mutation: the exception is caught, the call is tried again and the handler
\* carries on
RunUntilRaiseRetry(M, stmts, k) ==
    RunSteps(Raise(RunSteps(M, SubSeq(stmts, 1, k - 1)), stmts[k]),
             SubSeq(stmts, k, Len(stmts)))

\* Run a handler whose k-th statement raises
RunUntilRaise(M, stmts, k) == Raise(RunSteps(M, SubSeq(stmts, 1, k - 1)), stmts[k])

\* CometCallback(...) raises at its k-th statement: no instance is returned.
\* Constructions raise before the one that returns the callback, and one that
\* raises after it created a record happens on a fresh study.
ConstructRaises(workspace, metric_names, k) ==
    \E M \in {RunUntilRaise(Machine(NewSelf(workspace, ProjectNameArg, metric_names)),
                           InitStmts(workspace, metric_names), k)} :
       /\ Len(callbacks) = 0
       /\ Len(M.records) = Len(records) \/ records = << >>
       /\ Commit(M)
       /\ last' = LastHandler("init_raised", 0, 0, EmptyDict, << >>, M, None, None, FALSE)
       /\ UNCHANGED <<directions, best_trials, callbacks, wpc, wself, wsteps>>

\* callback(study, trial) raises at its k-th statement
CallRaises(c, number, params, values, best, k) ==
    \E M \in {RunUntilRaise(Machine(callbacks[c]),
                           CallStmts(callbacks[c], number, params, values, best), k)} :
       /\ Commit(M)
       /\ callbacks' = [callbacks EXCEPT ![c] = M.self]
       /\ best_trials' = best
       /\ last' = LastHandler("call_raised", c, number, params, values, M, None, None, FALSE)
       /\ UNCHANGED <<directions, wpc, wself, wsteps>>

\* the decorated objective raises at the k-th statement of the wrapper
WrapperRaises(c, number, result, k) ==
    \E M \in {RunUntilRaise(Machine(callbacks[c]),
                           WrapperStmts(callbacks[c], number, result), k)} :
       /\ Commit(M)
       /\ callbacks' = [callbacks EXCEPT ![c] = M.self]
       /\ last' = LastHandler("wrapper_raised", c, number, EmptyDict, << >>, M, result, None, FALSE)
       /\ UNCHANGED <<directions, best_trials, wpc, wself, wsteps>>

\* One callback on a single-objective study, constructed after any failed attempts,
\* then decorated objectives and invocations for any trial number; every handler
\* may raise at any of its remote calls.
NextFail ==
    \/ \E workspace \in WorkspaceArgs :
            Len(callbacks) = 0 /\ Construct(workspace, << >>)
    \/ \E number \in TrialNumbers, params \in TrialParams :
            Len(callbacks) > 0 /\ Call(1, number, params, << 10 >>, << 0 >>)
    \/ \E number \in TrialNumbers :
            Len(callbacks) > 0 /\ Wrapper(1, number, 7)
    \/ \E workspace \in WorkspaceArgs :
         \E k \in RaisingPositions(InitStmts(workspace, << >>)) :
            ConstructRaises(workspace, << >>, k)
    \/ \E number \in TrialNumbers, params \in TrialParams :
         /\ Len(callbacks) > 0
         /\ \E k \in RaisingPositions(CallStmts(callbacks[1], number, params, << 10 >>, << 0 >>)) :
                CallRaises(1, number, params, << 10 >>, << 0 >>, k)
    \/ \E number \in TrialNumbers :
         /\ Len(callbacks) > 0
         /\ \E k \in RaisingPositions(WrapperStmts(callbacks[1], number, 7)) :
                WrapperRaises(1, number, 7, k)

SpecFail == Init /\ [][NextFail]_vars

\* ------------------------------------------ workers sharing one study
\* Several worker processes construct a callback on the same study.  Each
\* runs __init__ one statement at a time; the study's user attributes and the
\* remote records are shared, everything else is the worker's own.

\* a worker calls CometCallback(study, workspace, project_name, metric_names)
WorkerBegin(w, workspace, metric_names) ==
    /\ wpc[w] = "idle"
    /\ wpc' = [wpc EXCEPT ![w] = "workspace"]
    /\ wself' = [wself EXCEPT ![w] = NewSelf(workspace, ProjectNameArg, metric_names)]
    /\ wsteps' = [wsteps EXCEPT ![w] = WorkspaceStmts(workspace)]
    /\ UNCHANGED <<user_attrs, directions, best_trials, records, experiments,
                   active_experiment, callbacks, calls, last>>

\* _init_optuna_study_experiment reads the key from study.user_attrs
WorkerReadKey(w) ==
    /\ wpc[w] = "workspace"
    /\ wsteps[w] = << >>
    /\ wpc' = [wpc EXCEPT ![w] = "init"]
    /\ wsteps' = [wsteps EXCEPT ![w] =
            AfterWorkspaceStmts(wself[w].metric_names,
                                Get(user_attrs, "comet_study_experiment_key"))]
    /\ UNCHANGED <<user_attrs, directions, best_trials, records, experiments,
                   active_experiment, callbacks, calls, last, wself>>

\* the worker runs the next statement of __init__
WorkerStep(w) ==
    /\ wpc[w] \in {"workspace", "init"}
    /\ wsteps[w] # << >>
    /\ \E M \in {Apply(Machine(wself[w]), Head(wsteps[w]))} :
        /\ user_attrs' = M.user_attrs
        /\ records' = M.records
        /\ wself' = [wself EXCEPT ![w] = M.self]
    /\ wsteps' = [wsteps EXCEPT ![w] = Tail(wsteps[w])]
    /\ wpc' = [wpc EXCEPT ![w] =
            IF wpc[w] = "init" /\ Tail(wsteps[w]) = << >> THEN "done" ELSE wpc[w]]
    /\ UNCHANGED <<directions, best_trials, experiments, active_experiment,
                   callbacks, calls, last>>

NextWorkers ==
    \/ \E w \in Workers, workspace \in WorkspaceArgs, metric_names \in MetricNameArgs :
            WorkerBegin(w, workspace, metric_names)
    \/ \E w \in Workers : WorkerReadKey(w)
    \/ \E w \in Workers : WorkerStep(w)

SpecWorkers == InitLogging /\ [][NextWorkers]_vars

\* ------------------------------------------------------------- properties
\* the remote records that are a study's experiment / a trial's experiment
StudyRecords == {k \in 1..Len(records) : records[k].kind = "APIExperiment"}
TrialRecords == {k \in 1..Len(records) : records[k].kind = "Experiment"}

\* positions of the call log holding a statement with this op
CallsOf(op) == {i \in 1..Len(calls) : calls[i].op = op}

\* the statements that make a comet_ml.Experiment object (new or resumed)
MakesExperiment(i) == calls[i].op \in {"Experiment", "ExistingExperiment"}

\* C1: constructions performed one after another on the same study create exactly
\* one StudyExperiment record: the first construction creates it and stores its
\* key under comet_study_experiment_key, every later one finds the key and resumes
\* the same identifier without creating a record.
C1_OneStudyExperiment ==
    /\ Cardinality(StudyRecords) <= 1
    /\ Len(callbacks) >= 1 =>
        /\ Cardinality(StudyRecords) = 1
        /\ Get(user_attrs, "comet_study_experiment_key") \in StudyRecords
        /\ \A c \in 1..Len(callbacks) :
              callbacks[c].study_experiment = Get(user_attrs, "comet_study_experiment_key")
    /\ (last.op = "init" /\ last.c = 1) =>
        /\ last.key_before = None
        /\ \E i \in CallsOf("APIExperiment") : calls[i].name = "new"
        /\ Len(records) = last.records_before + 1
    /\ (last.op = "init" /\ last.c > 1) =>
        /\ last.key_before # None
        /\ \A i \in CallsOf("APIExperiment") :
              calls[i].name = "previous_experiment" /\ calls[i].value = last.key_before
        /\ Len(records) = last.records_before

\* C1 witness: a second construction has just run on the study
C1_Witness ==
    /\ last.op = "init"
    /\ last.c = 2
    /\ Cardinality(StudyRecords) = 1

AllWorkersDone == \A w \in Workers : wpc[w] = "done"

\* C2: workers constructing the callback on the same shared study, in any
\* interleaving of their steps, create no second StudyExperiment record, and when
\* all are done every worker logs to the record whose key the study stores.
C2_OneStudyExperimentAcrossWorkers ==
    /\ Cardinality(StudyRecords) <= 1
    /\ AllWorkersDone =>
        /\ Cardinality(StudyRecords) = 1
        /\ \A w \in Workers :
              wself[w].study_experiment = Get(user_attrs, "comet_study_experiment_key")

\* C3: at most one TrialExperiment is open, at every statement of every handler
\* and between handlers, and no experiment is open at the moment a resolution
\* creates or resumes one.
C3_AtMostOneOpen ==
    /\ Cardinality(OpenExperiments(experiments)) <= 1
    /\ \A i \in 1..Len(calls) :
        /\ Cardinality(calls[i].open) <= 1
        /\ MakesExperiment(i) => calls[i].open = {}

\* C3 witness: a resolution ended the open active experiment and then made another
C3_Witness ==
    \E i, j \in 1..Len(calls) :
        /\ i < j
        /\ calls[i].op = "end" /\ calls[i].on = "active_experiment" /\ ~calls[i].ended
        /\ MakesExperiment(j)
        /\ OpenExperiments(experiments) = {active_experiment}

\* C4: the trial-number to key mapping is persisted in the study's attributes:
\* a callback constructed after a TrialExperiment was created for trial n by an
\* earlier callback loads a mapping that contains n's key.
C4_MappingPersisted ==
    last.op = "init" =>
        \A c \in 1..(last.c - 1) : \A n \in DOMAIN callbacks[c].trial_experiments :
            Get(callbacks[last.c].trial_experiments, n) = callbacks[c].trial_experiments[n]

\* C5: a per-trial invocation for a trial with more than one value makes one
\* named-metric call per objective (named by the configured metric name at that
\* index, else by the index) and no optimization-result call; otherwise it makes
\* exactly one optimization-result call and no metric call, carrying the first
\* configured metric name or "objective_value", the trial's scalar value, its
\* parameters and the study's direction.
C5_ObjectiveLogging ==
    last.op = "call" =>
        LET names == callbacks[last.c].metric_names
            metric == CallsOf("log_metric")
            optim == CallsOf("log_optimization")
        IN IF Len(last.values) > 1
           THEN /\ optim = {}
                /\ Cardinality(metric) = Len(last.values)
                /\ \A j \in 1..Len(last.values) : \E i \in metric :
                      /\ calls[i].name = (IF j <= Len(names) THEN names[j] ELSE ToString(j - 1))
                      /\ calls[i].value = last.values[j]
                      /\ calls[i].obj = last.experiment
           ELSE /\ metric = {}
                /\ Cardinality(optim) = 1
                /\ \A i \in optim :
                      /\ calls[i].value.metric_name =
                            (IF Len(names) >= 1 THEN names[1] ELSE "objective_value")
                      /\ calls[i].value.metric_value =
                            (IF last.values = << >> THEN None ELSE last.values[1])
                      /\ calls[i].value.parameters = last.params
                      /\ calls[i].value.objective = directions[1]
                      /\ calls[i].obj = last.experiment

\* C5 witness: an invocation for a trial with two values on a callback configured
\* with one metric name (one objective named, the other falling back to its index)
C5_Witness ==
    /\ last.op = "call"
    /\ Len(last.values) = 2
    /\ Len(callbacks[last.c].metric_names) = 1
    /\ Cardinality(CallsOf("log_metric")) = 2

\* the JSON array of a list of numbers, built from its first k elements
RECURSIVE C6_Elements(_, _)
C6_Elements(numbers, k) ==
    IF k = 0 THEN ""
    ELSE IF k = 1 THEN ToString(numbers[1])
    ELSE C6_Elements(numbers, k - 1) \o ", " \o ToString(numbers[k])

\* C6: after every completed per-trial invocation the "best_trials" annotation of
\* the study's experiment is the JSON array of the trial numbers the study
\* currently reports as best, whatever it was before.
C6_BestTrialsOverwritten ==
    last.op = "call" =>
        LET others == records[callbacks[last.c].study_experiment].others IN
        /\ "best_trials" \in DOMAIN others
        /\ others["best_trials"] = "[" \o C6_Elements(best_trials, Len(best_trials)) \o "]"

\* C6 witness: an invocation replaced a longer, different list by [0]
C6_Witness ==
    /\ last.op = "call"
    /\ last.replaced
    /\ best_trials = << 0 >>

\* C7: a completed per-trial invocation ends by closing the experiment it resolved:
\* the parameter, trial-number, tag and objective-value calls and the best_trials
\* update come before the close, and on return the active experiment is that
\* experiment and has ended.
C7_EndsByClosing ==
    last.op = "call" =>
        LET n == Len(calls)
        IN
        /\ calls[n].op = "end" /\ calls[n].on = "experiment" /\ calls[n].obj = last.experiment
        /\ \A i \in 1..(n - 1) : calls[i].op = "end" => calls[i].obj # last.experiment
        /\ \E i \in CallsOf("log_parameters") : i < n /\ calls[i].obj = last.experiment
        /\ \E i \in CallsOf("log_other") :
              i < n /\ calls[i].obj = last.experiment /\ calls[i].name = "trial_number"
                    /\ calls[i].value = last.number
        /\ \E i \in CallsOf("add_tag") :
              i < n /\ calls[i].obj = last.experiment
                    /\ calls[i].value = "trial_number_" \o ToString(last.number)
        /\ \E i \in CallsOf("log_metric") \cup CallsOf("log_optimization") :
              i < n /\ calls[i].obj = last.experiment
        /\ \E i \in CallsOf("log_other") :
              i < n /\ calls[i].on = "study_experiment" /\ calls[i].name = "best_trials"
        /\ active_experiment = last.experiment
        /\ experiments[active_experiment].ended

\* C7 witness: an invocation that created its experiment has returned
C7_Witness ==
    /\ last.op = "call"
    /\ CallsOf("Experiment") # {}
    /\ experiments[last.experiment].ended

\* the statements of _init_optuna_trial_experiment
ResolutionOps == {"return_active", "end", "ExistingExperiment", "Experiment", "add_tag",
                  "log_other", "store_key", "setattr_active"}

\* C8: the wrapper first resolves the trial's experiment, sets it as the trial's
\* `experiment` attribute before the wrapped objective runs, calls the objective
\* exactly once and returns its result unchanged.
C8_WrapperDelegates ==
    last.op = "wrapper" =>
        LET n == Len(calls) IN
        /\ n >= 3
        /\ \A i \in 1..(n - 2) : calls[i].op \in ResolutionOps
        /\ calls[n - 1].op = "setattr_trial"
        /\ calls[n].op = "func"
        /\ Cardinality(CallsOf("func")) = 1
        /\ last.experiment # None
        /\ last.experiment = active_experiment
        /\ experiments[last.experiment].key =
              Get(callbacks[last.c].trial_experiments, last.number)
        /\ last.trial_experiment = last.experiment
        /\ last.func_saw = last.experiment
        /\ last.ret = last.result

\* C8 witness: the wrapper ran for trial 1 and returned the objective's result 8
C8_Witness ==
    /\ last.op = "wrapper"
    /\ last.number = 1
    /\ last.ret = 8
    /\ last.func_saw # None

\* C9: when the callback is invoked right after the decorated objective for the
\* same trial number on the same callback instance, resolution returns the active
\* experiment (the one the decorator exposed) unchanged: no record is created, no
\* experiment is made or resumed, and nothing is closed before the log calls.
C9_CallbackReusesWrapperExperiment ==
    (last.op = "call" /\ last.exposed # None) =>
        /\ calls[1].op = "return_active"
        /\ \A i \in 1..Len(calls) : ~MakesExperiment(i)
        /\ \A i \in 1..(Len(calls) - 1) : calls[i].op # "end"
        /\ Len(records) = last.records_before
        /\ last.experiment = last.exposed
        /\ \A i \in 1..Len(calls) : calls[i].on = "experiment" => calls[i].obj = last.exposed
        /\ experiments[last.experiment].key =
              Get(callbacks[last.c].trial_experiments, last.number)

\* C9 witness: the callback ran right after the wrapper for the same trial
C9_Witness ==
    /\ last.op = "call"
    /\ last.exposed # None
    /\ last.experiment = last.exposed

\* C10: when the study already stores comet_study_experiment_key, resolving the
\* study's experiment creates no record, adds no "optuna_study" tag, writes no
\* study-name or storage annotation and does not write the study's attributes;
\* every repetition yields the stored identifier.
C10_ResumeLeavesStudyUnchanged ==
    (last.op = "init" /\ last.key_before # None) =>
        /\ Len(records) = last.records_before
        /\ \A i \in CallsOf("APIExperiment") :
              calls[i].name = "previous_experiment" /\ calls[i].value = last.key_before
        /\ CallsOf("add_tag") = {}
        /\ \A i \in CallsOf("log_other") :
              calls[i].name \notin {"optuna_study_name", "optuna_storage"}
        /\ CallsOf("set_user_attr") = {}
        /\ DOMAIN user_attrs = {"comet_study_experiment_key"}
        /\ user_attrs["comet_study_experiment_key"] = last.key_before
        /\ \A c \in 1..Len(callbacks) : callbacks[c].study_experiment = last.key_before

\* C10 witness: a construction found the key stored and resumed the record
C10_Witness ==
    /\ last.op = "init"
    /\ last.key_before # None
    /\ \E i \in CallsOf("APIExperiment") : calls[i].name = "previous_experiment"

\* the statements of the last handler that log a direction annotation: the
\* log_other calls of a constructor other than the study-name and storage ones
C11_DirectionCalls ==
    {i \in CallsOf("log_other") : calls[i].name \notin {"optuna_study_name", "optuna_storage"}}

\* C11: constructing the callback on a study with N objectives logs exactly N
\* direction annotations on the study's experiment, consecutively and in the order
\* of the objectives, the i-th named after the i-th configured metric name when
\* there is one and after the 0-based index otherwise, with value "minimize" or
\* "maximize" as the objective's direction; both when the experiment is newly
\* created and when it is resumed.
C11_DirectionAnnotations ==
    last.op = "init" =>
        LET N == Len(directions)
            names == callbacks[last.c].metric_names
            first == Len(calls) - N
            key == Get(user_attrs, "comet_study_experiment_key")
        IN
        /\ C11_DirectionCalls = first..(first + N - 1)
        /\ \A j \in 1..N :
              LET call == calls[first + j - 1] IN
              /\ call.on = "study_experiment"
              /\ call.key = key
              /\ call.name = "direction_of_objective_"
                                \o (IF j <= Len(names) THEN names[j] ELSE ToString(j - 1))
              /\ call.value = (IF directions[j] = "MINIMIZE" THEN "minimize" ELSE "maximize")
              /\ Get(records[key].others, call.name) = call.value

\* C11 witness: a construction resumed the experiment of a study with two
\* objectives, the first named by a metric name, the second by its index
C11_Witness ==
    /\ last.op = "init"
    /\ last.key_before # None
    /\ Len(directions) = 2
    /\ Len(callbacks[last.c].metric_names) = 1
    /\ Cardinality(C11_DirectionCalls) = 2

\* C12: when a remote call raises during a per-trial invocation, the invocation
\* stops at that call: the raise is the last thing it did (no later log call, no
\* best_trials update, no close, no second attempt of the call), and what the
\* earlier statements did is kept (records created, tags and annotations written,
\* the mapping entry stored, the previous active experiment ended).
C12_RaiseStopsInvocation ==
    last.op = "call_raised" =>
        LET n == Len(calls)
            failed == calls[n].value
            IsClose == failed.op = "end" /\ failed.on = "experiment"
            BeforeObjective ==
                \/ failed.op \in {"Experiment", "ExistingExperiment", "add_tag", "log_parameters"}
                \/ failed.op = "end" /\ failed.on = "active_experiment"
                \/ failed.op = "log_other" /\ failed.name # "best_trials"
        IN
        /\ calls[n].op = "raise"
        /\ \A i \in 1..(n - 1) : calls[i].op # "raise"
        /\ \A i \in 1..n : ~(calls[i].op = "end" /\ calls[i].on = "experiment")
        /\ ~IsClose => \A i \in CallsOf("log_other") : calls[i].name # "best_trials"
        /\ BeforeObjective =>
              CallsOf("log_metric") \cup CallsOf("log_optimization") = {}
        /\ (last.experiment # None /\ CallsOf("return_active") = {}) =>
              ~experiments[last.experiment].ended
        /\ Len(records) = last.records_before + Cardinality(CallsOf("Experiment"))
        /\ \A i \in 1..(n - 1) :
              /\ calls[i].op = "add_tag" => calls[i].value \in records[calls[i].key].tags
              /\ calls[i].op = "log_other" =>
                    Get(records[calls[i].key].others, calls[i].name) = calls[i].value
              /\ calls[i].op = "store_key" =>
                    Get(callbacks[last.c].trial_experiments, last.number)
                        = experiments[last.experiment].key
              /\ (calls[i].op = "end" /\ calls[i].on = "active_experiment") =>
                    experiments[calls[i].obj].ended

\* C12 witness: an invocation created its experiment, tagged it and logged the
\* trial number, and then the optimization-result call raised
C12_Witness ==
    /\ last.op = "call_raised"
    /\ calls[Len(calls)].op = "raise"
    /\ calls[Len(calls)].name = "log_optimization"
    /\ CallsOf("Experiment") # {}
    /\ ~experiments[last.experiment].ended
    /\ "optuna_trial" \in records[experiments[last.experiment].key].tags

\* C13: when a handler's resolution of the trial's experiment has returned, the
\* process-wide active experiment is the experiment it returned, whether it was
\* created, resumed or found active; the handler's later statements act on that
\* experiment; and the pointer, once an experiment exists, is never unset.
C13_ActiveIsReturned ==
    /\ Len(experiments) > 0 => active_experiment \in 1..Len(experiments)
    /\ last.op \in {"call", "wrapper"} =>
        /\ last.experiment \in 1..Len(experiments)
        /\ active_experiment = last.experiment
        /\ \A i \in 1..Len(calls) :
            /\ calls[i].op \in {"return_active", "setattr_active"} =>
                  calls[i].obj = last.experiment
            /\ (calls[i].on = "experiment" /\ calls[i].op # "store_key") =>
                  calls[i].obj = last.experiment
        /\ Cardinality(CallsOf("return_active") \cup CallsOf("setattr_active")) = 1
        /\ CallsOf("setattr_active") # {} <=>
              CallsOf("Experiment") \cup CallsOf("ExistingExperiment") # {}

\* C13 witness: a resolution resumed the experiment of a trial whose key is in
\* the mapping while another experiment was the active one
C13_Witness ==
    /\ last.op = "call"
    /\ CallsOf("ExistingExperiment") # {}
    /\ active_experiment = last.experiment
    /\ Len(experiments) = 3

\* the (callback, trial number) pairs that have an entry in a callback's mapping
C14_Mapped ==
    {p \in (1..Len(callbacks)) \X TrialNumbers :
        p[2] \in DOMAIN callbacks[p[1]].trial_experiments}

\* C14: for each callback instance at most one TrialExperiment record is created
\* per trial number: the records of trials are exactly the keys held by the
\* mappings, one record per (callback, trial number) entry; a resolution that
\* creates a record stores its key for the trial number, and a resolution for a
\* number that has a key creates nothing and either returns the active experiment
\* with that key or resumes the record by that key.
C14_OneRecordPerTrial ==
    /\ \A p, q \in C14_Mapped :
          p # q => callbacks[p[1]].trial_experiments[p[2]]
                        # callbacks[q[1]].trial_experiments[q[2]]
    /\ TrialRecords = {callbacks[p[1]].trial_experiments[p[2]] : p \in C14_Mapped}
    /\ last.op \in {"call", "wrapper"} =>
        LET key == Get(callbacks[last.c].trial_experiments, last.number) IN
        /\ key \in TrialRecords
        /\ experiments[last.experiment].key = key
        /\ IF CallsOf("Experiment") # {}
           THEN /\ Len(records) = last.records_before + 1
                /\ key = Len(records)
                /\ CallsOf("store_key") # {}
                /\ CallsOf("return_active") \cup CallsOf("ExistingExperiment") = {}
           ELSE /\ Len(records) = last.records_before
                /\ CallsOf("store_key") = {}
                /\ \/ /\ CallsOf("return_active") # {}
                      /\ \A i \in CallsOf("return_active") : calls[i].key = key
                   \/ /\ CallsOf("ExistingExperiment") # {}
                      /\ \A i \in CallsOf("ExistingExperiment") : calls[i].value = key

\* C14 witness: a callback resolved trial 0 for the third time (after creating
\* its record and after another trial had become the active one) and resumed
\* the record; two trial records exist for the three experiment objects
C14_Witness ==
    /\ last.op \in {"call", "wrapper"}
    /\ last.number = 0
    /\ CallsOf("ExistingExperiment") # {}
    /\ Cardinality(TrialRecords) = 2
    /\ Len(experiments) = 3
    /\ Cardinality(C14_Mapped) = 2

\* C15: the experiment a resolution returns has not ended when it is returned,
\* so no statement of a handler (the callback's log calls, the statements of the
\* decorated objective) acts on an experiment that has already ended.
C15_ReturnedIsOpen ==
    last.op \in {"call", "wrapper"} =>
        \A i \in 1..Len(calls) :
            /\ calls[i].op \in {"return_active", "setattr_active", "setattr_trial"} =>
                  ~calls[i].ended
            /\ calls[i].on = "experiment" => ~calls[i].ended

\* C16: a key is published only after its record is fully initialised, also when
\* a remote call raised midway through a creation: a comet_study_experiment_key
\* stored in the study names a study record tagged "optuna_study" and annotated
\* with the study name and the storage class, and every entry of a callback's
\* trial mapping names a trial record tagged "optuna_trial" and annotated with
\* the study name.
C16_PublishedKeysInitialised ==
    /\ "comet_study_experiment_key" \in DOMAIN user_attrs =>
        LET key == user_attrs["comet_study_experiment_key"] IN
        /\ key \in StudyRecords
        /\ "optuna_study" \in records[key].tags
        /\ Get(records[key].others, "optuna_study_name") = study_name
        /\ Get(records[key].others, "optuna_storage") = StorageClassName
    /\ \A c \in 1..Len(callbacks) : \A n \in DOMAIN callbacks[c].trial_experiments :
        LET key == callbacks[c].trial_experiments[n] IN
        /\ key \in TrialRecords
        /\ "optuna_trial" \in records[key].tags
        /\ Get(records[key].others, "optuna_study_name") = study_name

\* C16 witness: the study's key is published, and a resolution for a trial has
\* raised after it created and tagged a record but before it annotated it; the
\* record's key is in no mapping
C16_Witness ==
    /\ last.op \in {"call_raised", "wrapper_raised"}
    /\ "comet_study_experiment_key" \in DOMAIN user_attrs
    /\ \E key \in TrialRecords :
        /\ records[key].tags = {"optuna_trial"}
        /\ "optuna_study_name" \notin DOMAIN records[key].others
        /\ \A c \in 1..Len(callbacks) : \A n \in DOMAIN callbacks[c].trial_experiments :
              callbacks[c].trial_experiments[n] # key

\* C17: also when remote calls raise, an experiment that is open is the active
\* experiment (so at most one is open), and no experiment is open at the moment a
\* resolution creates or resumes one: whatever an aborted handler left open is
\* closed before another experiment is made.
C17_OpenIsActive ==
    /\ \A e \in OpenExperiments(experiments) : e = active_experiment
    /\ \A i \in 1..Len(calls) :
        /\ Cardinality(calls[i].open) <= 1
        /\ (calls[i].op \in {"Experiment", "ExistingExperiment"}
             \/ (calls[i].op = "raise"
                 /\ calls[i].name \in {"Experiment", "ExistingExperiment"})) =>
              calls[i].open = {}

====
